---- MODULE Spec2Model ----
(***************************************************************************)
(* Model of hamming-rust: the bit-packed vector (encoding/bitvec.rs), the  *)
(* Hamming codec (encoding/hamming.rs) and the GUS frame protocol          *)
(* (proto/mod.rs).                                                         *)
(*                                                                         *)
(* Values.  A byte is an integer in 0..255.  A BitVec is the record        *)
(* [data |-> sequence of bytes, len |-> number of bits].  A Rust Result or *)
(* Option is a record with a field tag; a panic (index out of range on a   *)
(* Vec or slice, empty range given to rand) is the tag "Panic".            *)
(***************************************************************************)
EXTENDS Integers, Sequences, FiniteSets, TLC

VARIABLES
    bv,      \* BitVec machine: the vector under test
    last,    \* BitVec machine: the last operation, its arguments, the vector before it, its result
    pushed,  \* Build machine: the bits pushed so far onto a vector that started as new()
    hdata,   \* Hamming machine: the data given to Hamming.encode
    hcode,   \* Hamming machine: the codeword (after the flips applied so far)
    hflips,  \* Hamming machine: the set of 1-indexed positions toggled since encode
    hres,    \* Hamming machine: the result of Hamming.decode, or tag "NotRun"
    par,     \* Hamming machine: last calculate_parity_count call [k, r, rdec]
    fbytes,  \* Frame machine: the byte string the input bits were built from
    fenc,    \* Frame machine: result of GUSProtocol::encode (first invocation)
    fenc2,   \* Frame machine: result of a second invocation on the same data
    fdec,    \* Frame machine: result of GUSProtocol::decode on fenc's buffer
    buf,     \* Frame machine: an arbitrary received buffer
    bres     \* Frame machine: result of GUSProtocol::decode on buf

vars == <<bv, last, pushed, hdata, hcode, hflips, hres, par, fbytes, fenc, fenc2, fdec, buf, bres>>
bvVars == <<bv, last, pushed>>
hamVars == <<hdata, hcode, hflips, hres, par>>
frameVars == <<fbytes, fenc, fenc2, fdec, buf, bres>>

(***************************************************************************)
(* Bounds of the model.                                                    *)
(***************************************************************************)
MaxBits == 9        \* longest BitVec of the BitVec machine, in bits
MaxBufBytes == 2    \* longest byte buffer given to from_bytes in the BitVec machine
MaxOps == 2         \* most operations applied to a constructed vector

\* Bytes the BitVec machine's from_bytes draws from.
ByteSamples == {0, 255}

BoolSeqs(n) == UNION {[1..m -> BOOLEAN] : m \in 0..n}
ByteSeqs(S, n) == UNION {[1..m -> S] : m \in 0..n}

(***************************************************************************)
(* Bit operations on a u8.                                                 *)
(***************************************************************************)
\* (byte >> bit_index) & 1
BitAt(byte, bit_index) == (byte \div (2 ^ bit_index)) % 2
\* byte | (1 << bit_index)
OrBit(byte, bit_index) ==
    IF BitAt(byte, bit_index) = 1 THEN byte ELSE byte + 2 ^ bit_index
\* byte & !(1 << bit_index)
AndNotBit(byte, bit_index) ==
    IF BitAt(byte, bit_index) = 1 THEN byte - 2 ^ bit_index ELSE byte
\* byte ^ (1 << bit_index)
XorBit(byte, bit_index) ==
    IF BitAt(byte, bit_index) = 1 THEN byte - 2 ^ bit_index ELSE byte + 2 ^ bit_index

(***************************************************************************)
(* Option / Result values.                                                 *)
(***************************************************************************)
None == [tag |-> "None"]
Some(v) == [tag |-> "Some", val |-> v]
Panic == [tag |-> "Panic"]

(***************************************************************************)
(* BitVec (encoding/bitvec.rs)                                             *)
(***************************************************************************)
BitVec_new == [data |-> <<>>, len |-> 0]

BitVec_from_bytes(bytes, bit_length) == [data |-> bytes, len |-> bit_length]

\* Vec::with_capacity reserves and stores nothing.
BitVec_with_capacity(bits) == [data |-> <<>>, len |-> 0]

BitVec_zeros(bits) ==
    LET byte_capacity == (bits + 7) \div 8
    IN  [data |-> [i \in 1..byte_capacity |-> 0], len |-> bits]

BitVec_ones(bits) ==
    LET byte_capacity == (bits + 7) \div 8
    IN  [data |-> [i \in 1..byte_capacity |-> 255], len |-> bits]

BitVec_len(v) == v.len
BitVec_true_len(v) == Len(v.data)
BitVec_into_inner(v) == v.data

\* push: result tag "Ok" with the new vector, or "Panic" when data[byte_index]
\* is out of range (the 0 byte pushed before the access stays pushed).
BitVec_push(v, bit) ==
    LET grown == IF v.len % 8 = 0 THEN Append(v.data, 0) ELSE v.data
        byte_index == v.len \div 8
        bit_index == 7 - (v.len % 8)
    IN  IF ~bit
        THEN [tag |-> "Ok", bv |-> [data |-> grown, len |-> v.len + 1]]
        ELSE IF byte_index + 1 > Len(grown)
        THEN [tag |-> "Panic", bv |-> [data |-> grown, len |-> v.len]]
        ELSE [tag |-> "Ok",
              bv |-> [data |-> [grown EXCEPT ![byte_index + 1] = OrBit(@, bit_index)],
                      len |-> v.len + 1]]

BitVec_get(v, index) ==
    IF index >= v.len THEN None
    ELSE LET byte_index == index \div 8
             bit_index == 7 - (index % 8)
         IN  IF byte_index + 1 > Len(v.data) THEN Panic
             ELSE Some(BitAt(v.data[byte_index + 1], bit_index) = 1)

\* A slip of the bounds check: the index is compared with the storage capacity.
BitVec_set_capacity_check(v, index, value) ==
    IF index >= 8 * Len(v.data) THEN [tag |-> "IndexOutOfBounds", bv |-> v]
    ELSE LET byte_index == index \div 8
             bit_index == 7 - (index % 8)
         IN  [tag |-> "Ok",
              bv |-> [v EXCEPT !.data[byte_index + 1] =
                         IF value THEN OrBit(@, bit_index)
                                  ELSE AndNotBit(@, bit_index)]]

BitVec_set(v, index, value) ==
    IF index >= v.len THEN [tag |-> "IndexOutOfBounds", bv |-> v]
    ELSE LET byte_index == index \div 8
             bit_index == 7 - (index % 8)
         IN  IF byte_index + 1 > Len(v.data) THEN [tag |-> "Panic", bv |-> v]
             ELSE [tag |-> "Ok",
                   bv |-> [v EXCEPT !.data[byte_index + 1] =
                              IF value THEN OrBit(@, bit_index)
                                       ELSE AndNotBit(@, bit_index)]]

BitVec_toggle(v, index) ==
    IF index >= v.len THEN [tag |-> "IndexOutOfBounds", bv |-> v]
    ELSE LET byte_index == index \div 8
             bit_index == 7 - (index % 8)
         IN  IF byte_index + 1 > Len(v.data) THEN [tag |-> "Panic", bv |-> v]
             ELSE [tag |-> "Ok",
                   bv |-> [v EXCEPT !.data[byte_index + 1] = XorBit(@, bit_index)]]

\* The inner loop of from_vec: byte |= 1 << 7 - i for every set bit i of the chunk.
RECURSIVE PackChunk(_, _, _)
PackChunk(chunk, i, byte) ==
    IF i >= Len(chunk) THEN byte
    ELSE PackChunk(chunk, i + 1, IF chunk[i + 1] THEN OrBit(byte, 7 - i) ELSE byte)

\* vec.chunks(8): chunk c (0-based) is vec[8c .. min(8c+8, len)).
Chunk(vec, c) ==
    LET lo == 8 * c
        hi == IF lo + 8 < Len(vec) THEN lo + 8 ELSE Len(vec)
    IN  [i \in 1..(hi - lo) |-> vec[lo + i]]

\* A slip of the bit order: least significant bit first (byte |= 1 << i).
BitVec_from_vec_lsb(vec) ==
    LET nchunks == (Len(vec) + 7) \div 8
        RECURSIVE Pack(_, _, _)
        Pack(chunk, i, byte) ==
            IF i >= Len(chunk) THEN byte
            ELSE Pack(chunk, i + 1, IF chunk[i + 1] THEN OrBit(byte, i) ELSE byte)
    IN  [data |-> [c \in 1..nchunks |-> Pack(Chunk(vec, c - 1), 0, 0)],
         len |-> Len(vec)]

BitVec_from_vec(vec) ==
    LET nchunks == (Len(vec) + 7) \div 8
    IN  [data |-> [c \in 1..nchunks |-> PackChunk(Chunk(vec, c - 1), 0, 0)],
         len |-> Len(vec)]

\* to_vec: get(i).unwrap() for i in 0..len; a panic of get or of unwrap is Panic.
BitVec_to_vec(v) ==
    IF \E i \in 0..(v.len - 1) : BitVec_get(v, i).tag # "Some" THEN Panic
    ELSE [tag |-> "Ok", vec |-> [i \in 1..v.len |-> BitVec_get(v, i - 1).val]]

(***************************************************************************)
(* BitVec machine: a vector built by any constructor, then any sequence of *)
(* push / set / toggle / get.                                              *)
(***************************************************************************)
Op(op, idx, val, pre, res, n) ==
    [op |-> op, idx |-> idx, val |-> val, pre |-> pre, res |-> res, n |-> n]

\* Every vector a constructor returns, within the bounds.
Constructed ==
    {BitVec_new}
    \cup {BitVec_with_capacity(n) : n \in 0..MaxBits}
    \cup {BitVec_zeros(n) : n \in 0..MaxBits}
    \cup {BitVec_ones(n) : n \in 0..MaxBits}
    \cup {BitVec_from_vec(vec) : vec \in BoolSeqs(MaxBits)}
    \cup {BitVec_from_bytes(bytes, n) :
            bytes \in ByteSeqs(ByteSamples, MaxBufBytes), n \in 0..MaxBits}

BVInit ==
    /\ bv \in Constructed
    /\ last = Op("construct", 0, FALSE, bv, [tag |-> "Ok"], 0)
    /\ pushed = <<>>

BVIdle ==
    /\ bv = BitVec_new
    /\ last = Op("construct", 0, FALSE, BitVec_new, [tag |-> "Ok"], 0)
    /\ pushed = <<>>

BVPush ==
    \E bit \in BOOLEAN :
        /\ last.n < MaxOps
        /\ bv.len < MaxBits
        /\ LET r == BitVec_push(bv, bit)
           IN  /\ bv' = r.bv
               /\ last' = Op("push", bv.len, bit, bv, [tag |-> r.tag], last.n + 1)
        /\ UNCHANGED <<pushed, hamVars, frameVars>>

BVSet ==
    \E index \in 0..MaxBits, value \in BOOLEAN :
        /\ last.n < MaxOps
        /\ LET r == BitVec_set(bv, index, value)
           IN  /\ bv' = r.bv
               /\ last' = Op("set", index, value, bv, [tag |-> r.tag], last.n + 1)
        /\ UNCHANGED <<pushed, hamVars, frameVars>>

BVToggle ==
    \E index \in 0..MaxBits :
        /\ last.n < MaxOps
        /\ LET r == BitVec_toggle(bv, index)
           IN  /\ bv' = r.bv
               /\ last' = Op("toggle", index, FALSE, bv, [tag |-> r.tag], last.n + 1)
        /\ UNCHANGED <<pushed, hamVars, frameVars>>

BVGet ==
    \E index \in 0..MaxBits :
        /\ last.n < MaxOps
        /\ bv' = bv
        /\ last' = Op("get", index, FALSE, bv, BitVec_get(bv, index), last.n + 1)
        /\ UNCHANGED <<pushed, hamVars, frameVars>>

BVNext == BVPush \/ BVSet \/ BVToggle \/ BVGet

(***************************************************************************)
(* Build machine: a vector that starts as new() and is grown by push, one  *)
(* bit at a time (as generate_random_bitvec and the tests build vectors).  *)
(***************************************************************************)
PushBit ==
    \E bit \in BOOLEAN :
        /\ Len(pushed) < MaxBits
        /\ LET r == BitVec_push(bv, bit)
           IN  /\ bv' = r.bv
               /\ last' = Op("push", bv.len, bit, bv, [tag |-> r.tag], last.n + 1)
        /\ pushed' = Append(pushed, bit)
        /\ UNCHANGED <<hamVars, frameVars>>

BuildNext == PushBit

(***************************************************************************)
(* Hamming codec (encoding/hamming.rs)                                     *)
(***************************************************************************)
\* a & b on usize
RECURSIVE BitAnd(_, _)
BitAnd(a, b) ==
    IF a = 0 \/ b = 0 THEN 0
    ELSE (a % 2) * (b % 2) + 2 * BitAnd(a \div 2, b \div 2)

\* usize::is_power_of_two
RECURSIVE is_power_of_two(_)
is_power_of_two(x) ==
    /\ x >= 1
    /\ (x = 1 \/ (x % 2 = 0 /\ is_power_of_two(x \div 2)))

\* The while loop of calculate_parity_count, from parity_count on.
RECURSIVE ParityCountLoop(_, _)
ParityCountLoop(data_len_bits, parity_count) ==
    IF 2 ^ parity_count < data_len_bits + parity_count + 1
    THEN ParityCountLoop(data_len_bits, parity_count + 1)
    ELSE parity_count

\* A slip of the loop condition: <= for <.
calculate_parity_count_le(data_len_bits) ==
    LET RECURSIVE Loop(_)
        Loop(pc) == IF 2 ^ pc <= data_len_bits + pc + 1 THEN Loop(pc + 1) ELSE pc
    IN  Loop(0)

calculate_parity_count(data_len_bits) == ParityCountLoop(data_len_bits, 0)

\* (0..).find(|&r| (1 << r) >= n + 1).unwrap(), searched from r on.
RECURSIVE FindR(_, _)
FindR(n, r) == IF 2 ^ r >= n + 1 THEN r ELSE FindR(n, r + 1)

decode_parity_count(n) == FindR(n, 0)

\* The for loop of basic_compute_parity from index i on; the result is
\* Ok(parity_sum), UnexpectedOutOfBounds or Panic.
RECURSIVE ParitySumLoop(_, _, _, _)
ParitySumLoop(codeword, parity_mask, i, parity_sum) ==
    IF i >= BitVec_len(codeword) THEN [tag |-> "Ok", val |-> parity_sum]
    ELSE IF BitAnd(i + 1, parity_mask) # 0
    THEN LET g == BitVec_get(codeword, i)
         IN  IF g.tag = "None" THEN [tag |-> "UnexpectedOutOfBounds"]
             ELSE IF g.tag = "Panic" THEN Panic
             ELSE ParitySumLoop(codeword, parity_mask, i + 1,
                                IF g.val THEN parity_sum + 1 ELSE parity_sum)
    ELSE ParitySumLoop(codeword, parity_mask, i + 1, parity_sum)

\* A slip of the parity: true for an even count instead of an odd one.
basic_compute_parity_even(codeword, parity_mask) ==
    LET s == ParitySumLoop(codeword, parity_mask, 0, 0)
    IN  IF s.tag = "Ok" THEN [tag |-> "Ok", val |-> (s.val % 2 = 0)] ELSE s

basic_compute_parity(codeword, parity_mask) ==
    LET s == ParitySumLoop(codeword, parity_mask, 0, 0)
    IN  IF s.tag = "Ok" THEN [tag |-> "Ok", val |-> (s.val % 2 = 1)] ELSE s

calculate_parity(codeword, parity_mask) == basic_compute_parity(codeword, parity_mask)

\* First loop of encode, from position i on: data bits go to the positions
\* that are not powers of two.
RECURSIVE EncodeFill(_, _, _, _, _)
EncodeFill(data, codeword, i, data_index, total_len) ==
    IF i >= total_len THEN [tag |-> "Ok", bv |-> codeword]
    ELSE IF is_power_of_two(i + 1)
    THEN EncodeFill(data, codeword, i + 1, data_index, total_len)
    ELSE LET g == BitVec_get(data, data_index)
         IN  IF g.tag = "None" THEN [tag |-> "UnexpectedOutOfBounds"]
             ELSE IF g.tag = "Panic" THEN Panic
             ELSE LET s == BitVec_set(codeword, i, g.val)
                  IN  IF s.tag = "IndexOutOfBounds" THEN [tag |-> "UnexpectedOutOfBounds"]
                      ELSE IF s.tag = "Panic" THEN Panic
                      ELSE EncodeFill(data, s.bv, i + 1, data_index + 1, total_len)

\* Second loop of encode, from parity index i on.
RECURSIVE EncodeParity(_, _, _)
EncodeParity(codeword, i, parity_count) ==
    IF i >= parity_count THEN [tag |-> "Ok", bv |-> codeword]
    ELSE LET parity_pos == 2 ^ i - 1
             parity == calculate_parity(codeword, 2 ^ i)
         IN  IF parity.tag # "Ok" THEN parity
             ELSE LET s == BitVec_set(codeword, parity_pos, parity.val)
                  IN  IF s.tag = "IndexOutOfBounds" THEN [tag |-> "UnexpectedOutOfBounds"]
                      ELSE IF s.tag = "Panic" THEN Panic
                      ELSE EncodeParity(s.bv, i + 1, parity_count)

\* A slip of encode: the parity loop is left out.
Hamming_encode_no_parity(data) ==
    LET data_len_bits == BitVec_len(data)
        parity_count == calculate_parity_count(data_len_bits)
        total_len == data_len_bits + parity_count
    IN  EncodeFill(data, BitVec_zeros(total_len), 0, 0, total_len)

Hamming_encode(data) ==
    LET data_len_bits == BitVec_len(data)
        parity_count == calculate_parity_count(data_len_bits)
        total_len == data_len_bits + parity_count
        filled == EncodeFill(data, BitVec_zeros(total_len), 0, 0, total_len)
    IN  IF filled.tag # "Ok" THEN filled
        ELSE EncodeParity(filled.bv, 0, parity_count)

\* The syndrome loop of decode, from check index i on.
RECURSIVE SyndromeLoop(_, _, _, _)
SyndromeLoop(codeword, i, r, error_pos) ==
    IF i >= r THEN [tag |-> "Ok", val |-> error_pos]
    ELSE LET p == calculate_parity(codeword, 2 ^ i)
         IN  IF p.tag # "Ok" THEN p
             ELSE SyndromeLoop(codeword, i + 1, r,
                               IF p.val THEN error_pos + 2 ^ i ELSE error_pos)

\* A slip of the correction step: the syndrome is not compared with the length.
DecodeCorrect_unchecked(codeword, error_pos) ==
    IF error_pos > 0
    THEN LET current == BitVec_get(codeword, error_pos - 1)
         IN  IF current.tag = "None" THEN [tag |-> "UnexpectedOutOfBounds"]
             ELSE IF current.tag = "Panic" THEN Panic
             ELSE LET s == BitVec_set(codeword, error_pos - 1, ~current.val)
                  IN  IF s.tag = "IndexOutOfBounds" THEN [tag |-> "UnexpectedOutOfBounds"]
                      ELSE IF s.tag = "Panic" THEN Panic
                      ELSE [tag |-> "Ok", bv |-> s.bv, toggled |-> TRUE]
    ELSE [tag |-> "Ok", bv |-> codeword, toggled |-> FALSE]

\* The correction step of decode on the working copy.
DecodeCorrect(codeword, error_pos) ==
    IF error_pos > 0 /\ error_pos - 1 < BitVec_len(codeword)
    THEN LET current == BitVec_get(codeword, error_pos - 1)
         IN  IF current.tag = "None" THEN [tag |-> "UnexpectedOutOfBounds"]
             ELSE IF current.tag = "Panic" THEN Panic
             ELSE LET s == BitVec_set(codeword, error_pos - 1, ~current.val)
                  IN  IF s.tag = "IndexOutOfBounds" THEN [tag |-> "UnexpectedOutOfBounds"]
                      ELSE IF s.tag = "Panic" THEN Panic
                      ELSE [tag |-> "Ok", bv |-> s.bv, toggled |-> TRUE]
    ELSE [tag |-> "Ok", bv |-> codeword, toggled |-> FALSE]

\* The extraction loop of decode, from position i on.
RECURSIVE DecodeExtract(_, _, _)
DecodeExtract(corrected, i, data) ==
    IF i >= BitVec_len(corrected) THEN [tag |-> "Ok", bv |-> data]
    ELSE IF ~is_power_of_two(i + 1)
    THEN LET g == BitVec_get(corrected, i)
         IN  IF g.tag = "None" THEN [tag |-> "UnexpectedOutOfBounds"]
             ELSE IF g.tag = "Panic" THEN Panic
             ELSE LET p == BitVec_push(data, g.val)
                  IN  IF p.tag = "Panic" THEN Panic
                      ELSE DecodeExtract(corrected, i + 1, p.bv)
    ELSE DecodeExtract(corrected, i + 1, data)

\* A slip of decode: the syndrome is computed but the bit is not corrected.
Hamming_decode_no_correct(codeword) ==
    LET n == BitVec_len(codeword)
        r == decode_parity_count(n)
        syn == SyndromeLoop(codeword, 0, r, 0)
    IN  IF syn.tag # "Ok" THEN syn
        ELSE LET ext == DecodeExtract(codeword, 0, BitVec_with_capacity(n - r))
             IN  IF ext.tag # "Ok" THEN ext
                 ELSE [tag |-> "Ok", data |-> ext.bv, error_pos |-> syn.val,
                       r |-> r, toggled |-> FALSE]

\* decode: Ok((data, error_pos)), UnexpectedOutOfBounds or Panic.  The fields r
\* and toggled record the local r and whether the working copy was toggled.
Hamming_decode(codeword) ==
    LET n == BitVec_len(codeword)
        r == decode_parity_count(n)
        syn == SyndromeLoop(codeword, 0, r, 0)
    IN  IF syn.tag # "Ok" THEN syn
        ELSE LET cor == DecodeCorrect(codeword, syn.val)
             IN  IF cor.tag # "Ok" THEN cor
                 ELSE LET ext == DecodeExtract(cor.bv, 0, BitVec_with_capacity(n - r))
                      IN  IF ext.tag # "Ok" THEN ext
                          ELSE [tag |-> "Ok", data |-> ext.bv, error_pos |-> syn.val,
                                r |-> r, toggled |-> cor.toggled]

(***************************************************************************)
(* Hamming machine: encode a data vector, toggle codeword bits (as the     *)
(* benchmark does with encoded.toggle), decode.                            *)
(***************************************************************************)
MaxK == 5           \* longest data vector given to Hamming.encode, in bits
MaxFlips == 2       \* most codeword bits toggled between encode and decode
MaxParK == 120      \* largest data length given to calculate_parity_count

NotRun == [tag |-> "NotRun"]

HamIdle ==
    /\ hdata = BitVec_new
    /\ hcode = NotRun
    /\ hflips = {}
    /\ hres = NotRun

\* The data vector is built before the codec is called.
HamInit ==
    /\ hdata \in {BitVec_from_vec(vec) : vec \in BoolSeqs(MaxK)}
    /\ hcode = NotRun
    /\ hflips = {}
    /\ hres = NotRun

ParInit == par = NotRun

HEncode ==
    /\ hcode = NotRun
    /\ hcode' = Hamming_encode(hdata)
    /\ UNCHANGED <<hdata, hflips, hres, par, bvVars, frameVars>>

HFlip ==
    /\ hcode.tag = "Ok"
    /\ Cardinality(hflips) < MaxFlips
    /\ \E p \in 1..BitVec_len(hcode.bv) :
        /\ p \notin hflips
        /\ hcode' = BitVec_toggle(hcode.bv, p - 1)
        /\ hflips' = hflips \cup {p}
    /\ hres' = NotRun
    /\ UNCHANGED <<hdata, par, bvVars, frameVars>>

HDecode ==
    /\ hcode.tag = "Ok"
    /\ hres = NotRun
    /\ hres' = Hamming_decode(hcode.bv)
    /\ UNCHANGED <<hdata, hcode, hflips, par, bvVars, frameVars>>

HamNext == HEncode \/ HFlip \/ HDecode

\* The parity-count machine: calculate_parity_count applied to a length k,
\* and decode's own search applied to the resulting codeword length.
HParityCount ==
    \E k \in 0..MaxParK :
        LET r == calculate_parity_count(k)
        IN  /\ par' = [tag |-> "Ok", k |-> k, r |-> r, rdec |-> decode_parity_count(k + r)]
            /\ UNCHANGED <<hdata, hcode, hflips, hres, bvVars, frameVars>>

ParNext == HParityCount

(***************************************************************************)
(* Frame protocol (proto/mod.rs)                                           *)
(***************************************************************************)
\* std::mem::size_of::<usize>() on a 64-bit target
USIZE_SIZE == 8
CURRENT_VERSION == 1
\* b"GUS"
PROTOCOL_NAME == <<71, 85, 83>>

\* usize::to_le_bytes: the n low bytes of x, least significant first.
RECURSIVE LeBytes(_, _)
LeBytes(x, n) == IF n = 0 THEN <<>> ELSE <<x % 256>> \o LeBytes(x \div 256, n - 1)

usize_to_le_bytes(x) == LeBytes(x, USIZE_SIZE)

\* Values of a usize from Huge on are all held as Huge: the code only compares
\* a length field with a buffer length or a bit index, both far below it.
Huge == 2 ^ 22
Saturate(x) == IF x > Huge THEN Huge ELSE x

\* usize::from_le_bytes, from byte i (1-based) up.
RECURSIVE LeValue(_, _)
LeValue(bytes, i) ==
    IF i > Len(bytes) THEN 0 ELSE Saturate(bytes[i] + 256 * LeValue(bytes, i + 1))

usize_from_le_bytes(bytes) == LeValue(bytes, 1)

\* A slip of to_le_bytes: big-endian byte order.
Length_to_be_bytes(length) ==
    LET RECURSIVE Rev(_)
        Rev(q) == IF q = <<>> THEN <<>> ELSE Rev(Tail(q)) \o <<Head(q)>>
    IN  Rev(usize_to_le_bytes(length.data_length))
            \o Rev(usize_to_le_bytes(length.bits_length))

Length_to_le_bytes(length) ==
    usize_to_le_bytes(length.data_length) \o usize_to_le_bytes(length.bits_length)

Length_from_le_bytes(bytes) ==
    [data_length |-> usize_from_le_bytes(SubSeq(bytes, 1, USIZE_SIZE)),
     bits_length |-> usize_from_le_bytes(SubSeq(bytes, USIZE_SIZE + 1, USIZE_SIZE * 2))]

GUSProtocol_new(data) ==
    [protocol_name |-> PROTOCOL_NAME, version |-> CURRENT_VERSION, data |-> data]

\* The outcomes of the two draws from rand::rng() in encode, for a codeword of
\* len bits: random_bool(0.5) is false; or it is true and random_range(0..len)
\* returns a bit index; or it is true and the range 0..0 is empty, on which
\* random_range panics.
RngOutcomes(len) ==
    {[flip |-> FALSE, bit |-> 0, empty |-> FALSE]}
    \cup {[flip |-> TRUE, bit |-> b, empty |-> FALSE] : b \in 0..(len - 1)}
    \cup (IF len = 0 THEN {[flip |-> TRUE, bit |-> 0, empty |-> TRUE]} ELSE {})

\* A slip of the corruption step: the chosen bit is set instead of toggled.
Corrupt_set(encoded_data, rnd) ==
    IF ~rnd.flip THEN [tag |-> "Ok", bv |-> encoded_data]
    ELSE IF rnd.empty THEN [tag |-> "Panic", bv |-> encoded_data]
    ELSE LET t == BitVec_set(encoded_data, rnd.bit, TRUE)
         IN  IF t.tag = "IndexOutOfBounds"
             THEN [tag |-> "UnexpectedOutOfBounds", bv |-> encoded_data]
             ELSE t

\* The corruption step of encode under the draw rnd.
Corrupt(encoded_data, rnd) ==
    IF ~rnd.flip THEN [tag |-> "Ok", bv |-> encoded_data]
    ELSE IF rnd.empty THEN [tag |-> "Panic", bv |-> encoded_data]
    ELSE LET t == BitVec_toggle(encoded_data, rnd.bit)
         IN  IF t.tag = "IndexOutOfBounds"
             THEN [tag |-> "UnexpectedOutOfBounds", bv |-> encoded_data]
             ELSE t

\* The buffer encode assembles from the (possibly corrupted) codeword.
Assemble(self, encoded_data) ==
    LET length == [data_length |-> BitVec_true_len(encoded_data),
                   bits_length |-> BitVec_len(encoded_data)]
    IN  self.protocol_name \o <<self.version>> \o Length_to_le_bytes(length)
            \o BitVec_into_inner(encoded_data)

\* encode after its first line, enc being the result of Hamming.encode(&self.data).
EncodeFrom(self, enc, rnd) ==
    IF enc.tag # "Ok" THEN [tag |-> enc.tag]
    ELSE LET cor == Corrupt(enc.bv, rnd)
         IN  IF cor.tag # "Ok" THEN [tag |-> cor.tag]
             ELSE [tag |-> "Ok", bytes |-> Assemble(self, cor.bv)]

\* encode under the draw rnd: Ok(bytes), UnexpectedOutOfBounds or Panic.
GUSProtocol_encode(self, rnd) == EncodeFrom(self, Hamming_encode(self.data), rnd)

Err(msg) == [tag |-> "Err", msg |-> msg]

\* The part of decode after the header checks: slice, from_bytes, Hamming.decode.
DecodeBody(encoded_data) ==
    LET hdr == 4 + USIZE_SIZE * 2
        length == Length_from_le_bytes(SubSeq(encoded_data, 5, hdr))
        end == hdr + length.data_length
    IN  \* the slice [hdr..end] panics when end is past the buffer (an end that
        \* overflows usize panics on the addition or wraps below hdr: a panic too)
        IF end > Len(encoded_data) THEN Panic
        ELSE LET data == SubSeq(encoded_data, hdr + 1, end)
             IN  IF Len(data) # length.data_length THEN Err("Data length mismatch")
                 ELSE LET dec == Hamming_decode(BitVec_from_bytes(data, length.bits_length))
                      IN  IF dec.tag = "Panic" THEN Panic
                          ELSE IF dec.tag # "Ok" THEN Err("Failed to decode Hamming code")
                          ELSE [tag |-> "Ok",
                                protocol_name |-> SubSeq(encoded_data, 1, 3),
                                version |-> encoded_data[4],
                                data |-> dec.data,
                                corrected_error |-> (dec.error_pos # 0)]

\* A slip of decode: the magic is compared before the length is checked.
GUSProtocol_decode_magic_first(encoded_data) ==
    IF Len(encoded_data) >= 3 /\ SubSeq(encoded_data, 1, 3) # PROTOCOL_NAME
    THEN Err("Invalid protocol name")
    ELSE IF Len(encoded_data) < 4 + USIZE_SIZE * 2 THEN Err("Invalid data length")
    ELSE IF encoded_data[4] # CURRENT_VERSION THEN Err("Unsupported version")
    ELSE DecodeBody(encoded_data)

GUSProtocol_decode(encoded_data) ==
    IF Len(encoded_data) < 4 + USIZE_SIZE * 2 THEN Err("Invalid data length")
    ELSE IF SubSeq(encoded_data, 1, 3) # PROTOCOL_NAME THEN Err("Invalid protocol name")
    ELSE IF encoded_data[4] # CURRENT_VERSION THEN Err("Unsupported version")
    ELSE DecodeBody(encoded_data)

\* utils::string_to_bits: each byte, most significant bit first.
string_to_bits(s) ==
    [j \in 1..(8 * Len(s)) |-> BitAt(s[((j - 1) \div 8) + 1], 7 - ((j - 1) % 8)) = 1]

(***************************************************************************)
(* Frame machine: a byte string is turned into bits, framed by encode      *)
(* (twice, to compare two invocations on the same data) and the first      *)
(* buffer is decoded.                                                      *)
(***************************************************************************)
MaxN == 2           \* longest input byte string of the frame machine

\* Bytes of the input strings: 0x00, 'U' = 01010101, 0x7F.
TextSamples == {0, 85, 127}

\* The input bits of the frame machine.
FrameData == BitVec_from_vec(string_to_bits(fbytes))

FrameIdle ==
    /\ fbytes = <<>>
    /\ fenc = NotRun
    /\ fenc2 = NotRun
    /\ fdec = NotRun

\* The input byte string is read before the protocol is called.
FrameInit ==
    /\ fbytes \in ByteSeqs(TextSamples, MaxN)
    /\ fenc = NotRun
    /\ fenc2 = NotRun
    /\ fdec = NotRun

\* GUSProtocol::new(bits).encode(); rnd is recorded beside the result.
FEncode ==
    /\ fenc = NotRun
    /\ LET self == GUSProtocol_new(FrameData)
           code == Hamming_encode(self.data)
       IN  \E rnd \in RngOutcomes(IF code.tag = "Ok" THEN BitVec_len(code.bv) ELSE 0) :
               fenc' = [res |-> EncodeFrom(self, code, rnd), rnd |-> rnd, tag |-> "Run"]
    /\ UNCHANGED <<fbytes, fenc2, fdec, buf, bres, bvVars, hamVars>>

\* A second invocation of encode on the same data.
FEncodeAgain ==
    /\ fenc # NotRun
    /\ fenc2 = NotRun
    /\ LET self == GUSProtocol_new(FrameData)
           code == Hamming_encode(self.data)
       IN  \E rnd \in RngOutcomes(IF code.tag = "Ok" THEN BitVec_len(code.bv) ELSE 0) :
               fenc2' = [res |-> EncodeFrom(self, code, rnd), rnd |-> rnd, tag |-> "Run"]
    /\ UNCHANGED <<fbytes, fenc, fdec, buf, bres, bvVars, hamVars>>

\* GUSProtocol::decode(encoded) on the buffer the first invocation returned.
FDecode ==
    /\ fenc # NotRun
    /\ fenc.res.tag = "Ok"
    /\ fdec = NotRun
    /\ fdec' = GUSProtocol_decode(fenc.res.bytes)
    /\ UNCHANGED <<fbytes, fenc, fenc2, buf, bres, bvVars, hamVars>>

\* encode, then decode of the returned buffer.
FrameNext == FEncode \/ FDecode

\* encode invoked twice on the same data.
TwiceNext == FEncode \/ FEncodeAgain

(***************************************************************************)
(* Receive machine: GUSProtocol::decode on an arbitrary buffer: a frame    *)
(* with sampled magic, version, length fields and payload, cut to a        *)
(* prefix.                                                                 *)
(***************************************************************************)
MaxField == 3       \* largest small value of the packed-byte-length field
MaxBitField == 10   \* largest value of the bit-length field
MaxPayload == 2     \* longest payload after the header, in bytes

HeaderSize == 4 + USIZE_SIZE * 2
MagicSamples == {PROTOCOL_NAME, <<71, 85, 0>>, <<103, 117, 115>>}
VersionSamples == {0, 1, 2}
\* the packed-byte-length field: small values and usize::MAX
DataLengthSamples ==
    {usize_to_le_bytes(v) : v \in 0..MaxField} \cup {[i \in 1..USIZE_SIZE |-> 255]}

Prefix(s, n) == IF n >= Len(s) THEN s ELSE SubSeq(s, 1, n)

\* Every buffer the receive machine is given.
Buffers ==
    {Prefix(magic \o <<version>> \o dl \o usize_to_le_bytes(bl) \o payload, cut) :
        magic \in MagicSamples, version \in VersionSamples,
        dl \in DataLengthSamples, bl \in 0..MaxBitField,
        payload \in ByteSeqs(ByteSamples, MaxPayload),
        cut \in 0..(HeaderSize + MaxPayload)}

\* The buffer is read from standard input before decode is called.
RecvInit ==
    /\ buf \in Buffers
    /\ bres = NotRun

RecvIdle ==
    /\ buf = <<>>
    /\ bres = NotRun

Receive ==
    /\ bres = NotRun
    /\ bres' = GUSProtocol_decode(buf)
    /\ UNCHANGED <<buf, fbytes, fenc, fenc2, fdec, bvVars, hamVars>>

RecvNext == Receive

(***************************************************************************)
(* Specifications.  The machines share no state; each specification runs   *)
(* one machine and Spec runs them all.                                     *)
(***************************************************************************)
Init == BVInit /\ HamInit /\ ParInit /\ FrameInit /\ RecvInit

Next ==
    \/ BVPush \/ BVSet \/ BVToggle \/ BVGet \/ PushBit
    \/ HEncode \/ HFlip \/ HDecode \/ HParityCount
    \/ FEncode \/ FEncodeAgain \/ FDecode
    \/ Receive

InitBitVec == BVInit /\ HamIdle /\ ParInit /\ FrameIdle /\ RecvIdle
InitHamming == BVIdle /\ HamInit /\ ParInit /\ FrameIdle /\ RecvIdle
InitParity == BVIdle /\ HamIdle /\ ParInit /\ FrameIdle /\ RecvIdle
InitFrame == BVIdle /\ HamIdle /\ ParInit /\ FrameInit /\ RecvIdle
InitBuild == BVIdle /\ HamIdle /\ ParInit /\ FrameIdle /\ RecvIdle
InitReceive == BVIdle /\ HamIdle /\ ParInit /\ FrameIdle /\ RecvInit

Spec == Init /\ [][Next]_vars
SpecBitVec == InitBitVec /\ [][BVNext]_vars
SpecHamming == InitHamming /\ [][HamNext]_vars
SpecParity == InitParity /\ [][ParNext]_vars
SpecFrame == InitFrame /\ [][FrameNext]_vars
SpecTwice == InitFrame /\ [][TwiceNext]_vars
SpecBuild == InitBuild /\ [][BuildNext]_vars
SpecReceive == InitReceive /\ [][RecvNext]_vars

(***************************************************************************)
(* Claims.                                                                 *)
(***************************************************************************)

\* C1: decode(encode(data)) with no bit flipped succeeds and returns the
\* original data bits (same length, same storage, same order) and syndrome 0;
\* encode itself succeeds, and for k = 0 the codeword is empty.
C1_RoundTrip ==
    /\ hcode # NotRun => hcode.tag = "Ok"
    /\ (hcode # NotRun /\ hflips = {} /\ BitVec_len(hdata) = 0) => hcode.bv = BitVec_new
    /\ (hres # NotRun /\ hflips = {}) =>
          /\ hres.tag = "Ok"
          /\ hres.data = hdata
          /\ BitVec_to_vec(hres.data) = BitVec_to_vec(hdata)
          /\ hres.error_pos = 0

C1_Witness ==
    /\ hres # NotRun
    /\ hflips = {}
    /\ hdata = BitVec_from_vec(<<TRUE, FALSE, TRUE, TRUE, TRUE>>)
    /\ hres.tag = "Ok"
    /\ hres.error_pos = 0

\* C2: flipping exactly one bit p of encode(data), parity or data position,
\* then decoding returns the original data and the syndrome p.
C2_SingleFlip ==
    (hres # NotRun /\ Cardinality(hflips) = 1) =>
        /\ hres.tag = "Ok"
        /\ hres.data = hdata
        /\ hflips = {hres.error_pos}

\* data [1,0,1,1], position 3 flipped: syndrome 3, data [1,0,1,1]
C2_Witness ==
    /\ hdata = BitVec_from_vec(<<TRUE, FALSE, TRUE, TRUE>>)
    /\ hflips = {3}
    /\ hres # NotRun
    /\ hres.tag = "Ok"
    /\ hres.error_pos = 3
    /\ BitVec_to_vec(hres.data) = [tag |-> "Ok", vec |-> <<TRUE, FALSE, TRUE, TRUE>>]

\* C3: frame round trip: for every input byte string, the empty one included,
\* and every outcome of the corruption step, encode succeeds, decode of its
\* buffer succeeds and returns the original bits, name and version, and the
\* correction flag is true exactly when a bit was flipped.
C3_FrameRoundTrip ==
    /\ fenc # NotRun => fenc.res.tag = "Ok"
    /\ fdec # NotRun =>
          /\ fdec.tag = "Ok"
          /\ fdec.data = FrameData
          /\ fdec.protocol_name = PROTOCOL_NAME
          /\ fdec.version = CURRENT_VERSION
          /\ fdec.corrected_error = fenc.rnd.flip

\* C4: decode rejects, in this order and each with its own error value, a
\* buffer shorter than the header (whatever its first bytes), a buffer of
\* header size with a wrong magic, a buffer with the magic and a version other
\* than 1; none of them is decoded into data.
C4_HeaderRejects ==
    bres # NotRun =>
        LET short == Len(buf) < 4 + 2 * USIZE_SIZE
            magic == ~short /\ SubSeq(buf, 1, 3) = <<71, 85, 83>>
        IN  /\ short => bres = Err("Invalid data length")
            /\ (~short /\ ~magic) => bres = Err("Invalid protocol name")
            /\ (magic /\ buf[4] # 1) => bres = Err("Unsupported version")
            /\ (short \/ ~magic \/ buf[4] # 1) => bres.tag = "Err"
            /\ Cardinality({"Invalid data length", "Invalid protocol name",
                            "Unsupported version"}) = 3

\* a short buffer whose first bytes are not the magic is still TruncatedHeader
C4_Witness ==
    /\ bres = Err("Invalid data length")
    /\ Len(buf) >= 4
    /\ SubSeq(buf, 1, 3) # PROTOCOL_NAME
    /\ buf[4] # CURRENT_VERSION

\* C5: a buffer with valid magic and version whose packed-byte-length field
\* exceeds the bytes present after the header is answered with the
\* DataLengthMismatch error value.
C5_DataLengthMismatch ==
    (/\ bres # NotRun
     /\ Len(buf) >= HeaderSize
     /\ SubSeq(buf, 1, 3) = PROTOCOL_NAME
     /\ buf[4] = CURRENT_VERSION
     /\ usize_from_le_bytes(SubSeq(buf, 5, 4 + USIZE_SIZE)) > Len(buf) - HeaderSize)
    => bres = Err("Data length mismatch")

C7_WireLayout ==
    (fenc # NotRun /\ fenc.res.tag = "Ok") =>
        LET b == fenc.res.bytes
            k == 8 * Len(fbytes)
            W == USIZE_SIZE
        IN  \E r \in 0..(k + 1) :
                /\ 2 ^ r >= k + r + 1
                /\ r > 0 => 2 ^ (r - 1) < k + r
                /\ LET n == k + r
                       p == (n + 7) \div 8
                   IN  /\ Len(b) = 4 + 2 * W + p
                       /\ SubSeq(b, 1, 3) = <<71, 85, 83>>
                       /\ b[4] = 1
                       /\ b[5] + 256 * b[6] = p
                       /\ \A i \in 3..W : b[4 + i] = 0
                       /\ b[4 + W + 1] + 256 * b[4 + W + 2] = n
                       /\ \A i \in 3..W : b[4 + W + i] = 0
                       /\ Len(SubSeq(b, 4 + 2 * W + 1, Len(b))) = p

C7_Witness ==
    /\ fenc # NotRun
    /\ fenc.res.tag = "Ok"
    /\ Len(fbytes) = 1
    /\ fenc.rnd.flip
    /\ Len(fenc.res.bytes) = 22

\* C8: get returns None exactly when index >= len; set and toggle fail with
\* IndexOutOfBounds exactly when index >= len and then leave the length and the
\* storage as they were; no access with index >= len succeeds or changes the
\* vector.
C8_OutOfRange ==
    LET oob == last.idx >= last.pre.len
    IN  /\ last.op = "get" =>
              /\ (last.res = None) <=> oob
              /\ bv = last.pre
        /\ last.op \in {"set", "toggle"} =>
              /\ (last.res.tag = "IndexOutOfBounds") <=> oob
              /\ oob => bv = last.pre
        /\ (last.op \in {"get", "set", "toggle"} /\ oob) =>
              /\ last.res.tag \notin {"Ok", "Some"}
              /\ bv = last.pre

\* an index past len that the storage could still hold
C8_Witness ==
    /\ last.op = "set"
    /\ last.val
    /\ last.idx >= last.pre.len
    /\ last.idx < 8 * Len(last.pre.data)
    /\ last.res.tag = "IndexOutOfBounds"
    /\ bv = last.pre

\* C9: after push(b) on a vector from any constructor and any operations, the
\* length is the old length + 1, get(old length) is b, every bit below the old
\* length is unchanged, and the storage grows by one byte exactly when the old
\* length is a multiple of 8.  Stated for the vectors that hold exactly
\* ceil(len / 8) storage bytes, as every constructor but from_bytes builds them.
C9_PushAppends ==
    (last.op = "push" /\ Len(last.pre.data) = (last.pre.len + 7) \div 8) =>
        /\ last.res.tag = "Ok"
        /\ bv.len = last.pre.len + 1
        /\ BitVec_get(bv, last.pre.len) = Some(last.val)
        /\ \A j \in 0..(last.pre.len - 1) : BitVec_get(bv, j) = BitVec_get(last.pre, j)
        /\ Len(bv.data) = Len(last.pre.data) + (IF last.pre.len % 8 = 0 THEN 1 ELSE 0)

\* C10: calculate_parity_count(k) is the least r with 2^r >= k + r + 1 (0 for
\* k = 0, 3 for k = 4), and the r decode computes from n = k + r, the least r'
\* with 2^r' >= n + 1, is the same r.
C10_ParityCount ==
    par # NotRun =>
        /\ 2 ^ par.r >= par.k + par.r + 1
        /\ par.r > 0 => 2 ^ (par.r - 1) < par.k + (par.r - 1) + 1
        /\ par.k = 0 => par.r = 0
        /\ par.k = 4 => par.r = 3
        /\ 2 ^ par.rdec >= par.k + par.r + 1
        /\ par.rdec > 0 => 2 ^ (par.rdec - 1) < par.k + par.r + 1
        /\ par.rdec = par.r

C10_Witness ==
    /\ par # NotRun
    /\ par.k = 4
    /\ par.r = 3
    /\ par.rdec = 3

C12_BitLengthRejected ==
    (/\ bres # NotRun
     /\ Len(buf) >= HeaderSize
     /\ SubSeq(buf, 1, 3) = PROTOCOL_NAME
     /\ buf[4] = CURRENT_VERSION
     /\ usize_from_le_bytes(SubSeq(buf, 5, 4 + USIZE_SIZE)) <= Len(buf) - HeaderSize
     /\ usize_from_le_bytes(SubSeq(buf, 5 + USIZE_SIZE, HeaderSize))
            > 8 * usize_from_le_bytes(SubSeq(buf, 5, 4 + USIZE_SIZE)))
    => bres.tag = "Err"

\* C13: for every BitVec and every index i < len, set(i, v) and toggle(i)
\* succeed; after set(i, v) get(i) is v, after toggle(i) get(i) is the negation
\* of what it was; the length and every bit j # i are unchanged; set(i, v)
\* again changes nothing, and toggle(i) again restores the vector.
C13_InRangeMutation ==
    (last.op \in {"set", "toggle"} /\ last.idx < last.pre.len) =>
        /\ last.res.tag = "Ok"
        /\ bv.len = last.pre.len
        /\ Len(bv.data) = Len(last.pre.data)
        /\ BitVec_get(last.pre, last.idx).tag = "Some"
        /\ BitVec_get(bv, last.idx) =
              Some(IF last.op = "set" THEN last.val
                   ELSE ~BitVec_get(last.pre, last.idx).val)
        /\ \A j \in 0..(bv.len - 1) :
              j # last.idx => BitVec_get(bv, j) = BitVec_get(last.pre, j)
        /\ last.op = "set" => BitVec_set(bv, last.idx, last.val) = [tag |-> "Ok", bv |-> bv]
        /\ last.op = "toggle" => BitVec_toggle(bv, last.idx) = [tag |-> "Ok", bv |-> last.pre]

\* C14: encode returns a codeword of k + r bits (r least with
\* 2^r >= k + r + 1) whose positions that are not powers of two hold, in
\* increasing order, exactly the k data bits, and in which, for every i in
\* 0..r-1, the positions j in 1..k+r with bit i of j set hold an even number
\* of set bits.
C14_CodewordLayout ==
    (hcode # NotRun /\ hflips = {}) =>
        /\ hcode.tag = "Ok"
        /\ LET k == BitVec_len(hdata)
               n == BitVec_len(hcode.bv)
               r == n - k
               d == BitVec_to_vec(hdata).vec
               cw == BitVec_to_vec(hcode.bv).vec
               pow == {j \in 1..n : \E e \in 0..n : 2 ^ e = j}
               keep == (1..n) \ pow
               rank(j) == Cardinality({i \in keep : i <= j})
           IN  /\ r >= 0
               /\ 2 ^ r >= k + r + 1
               /\ r > 0 => 2 ^ (r - 1) < k + r
               /\ Len(cw) = k + r
               /\ Cardinality(keep) = k
               /\ \A j \in keep : cw[j] = d[rank(j)]
               /\ \A i \in 0..(r - 1) :
                     Cardinality({j \in 1..n : (j \div 2 ^ i) % 2 = 1 /\ cw[j]}) % 2 = 0

\* a 5-bit data vector whose codeword has set parity bits
C14_Witness ==
    /\ hcode # NotRun
    /\ hflips = {}
    /\ hdata = BitVec_from_vec(<<TRUE, FALSE, TRUE, TRUE, FALSE>>)
    /\ hcode.tag = "Ok"
    /\ BitVec_len(hcode.bv) = 9
    /\ BitVec_get(hcode.bv, 1) = Some(TRUE)
    /\ BitVec_get(hcode.bv, 2) = Some(TRUE)

\* C15: for every bit sequence v, from_vec(v).to_vec() is v, from_vec(v) has
\* len |v| and ceil(|v| / 8) storage bytes, bit i is stored at bit 7 - i mod 8
\* of byte i div 8, and from_vec(v) has the same length and the same storage
\* bytes as the vector obtained from new() by pushing the bits of v in order.
C15_MsbFirst ==
    LET v == pushed
        f == BitVec_from_vec(v)
    IN  /\ BitVec_to_vec(f) = [tag |-> "Ok", vec |-> v]
        /\ BitVec_len(f) = Len(v)
        /\ BitVec_true_len(f) = (Len(v) + 7) \div 8
        /\ \A i \in 0..(Len(v) - 1) :
              v[i + 1] <=> (f.data[(i \div 8) + 1] \div 2 ^ (7 - (i % 8))) % 2 = 1
        /\ bv.len = f.len
        /\ bv.data = f.data
        /\ BitVec_to_vec(bv) = [tag |-> "Ok", vec |-> v]

\* nine bits, across the byte boundary
C15_Witness ==
    /\ pushed = <<TRUE, FALSE, TRUE, FALSE, TRUE, FALSE, TRUE, FALSE, TRUE>>
    /\ bv.data = <<170, 128>>
    /\ bv = BitVec_from_vec(pushed)

====
